---------------------------- MODULE Spec2Model ----------------------------
(***************************************************************************)
(* sync-autoreboot, client part (src/app.js): the watchdog that samples a  *)
(* reference clock, keeps an alarm, and reboots the machine behind a       *)
(* persisted cooldown record.                                              *)
(*                                                                         *)
(* Time.  `clock` is Date.now().  One unit of `clock` is long against the  *)
(* run time of a synchronous handler: the statements of one handler read   *)
(* the same Date.now(), and the clock advances only between handlers       *)
(* (Node runs one callback to completion before the next).  A handler is   *)
(* still split at the places where the process can be killed in between    *)
(* (pc), so that a restart between the record write and the reboot command *)
(* is a behaviour of the model.                                            *)
(***************************************************************************)
EXTENDS Integers, Sequences, FiniteSets

(***************************************************************************)
(* Configuration (environment variables, in clock units).                  *)
(***************************************************************************)
CHECK_INTERVAL == 1
ALLOWED_DIFFERENCE == 1
TIMEOUT_DURATION == 1
MIN_REBOOT_INTERVAL == 3

(* The model stops the clock at MaxClock, and lets at most MaxPending       *)
(* requests be outstanding: with that many unanswered, a response (or a     *)
(* failure) is handled before the interval fires again.  MaxProbe bounds    *)
(* the times of the call of checkTimestamp that is looked at alone.         *)
MaxClock == 6
MaxPending == 2
MaxProbe == 7

VARIABLES
  clock,            \* Date.now()
  nextTick,         \* when the setInterval callback is due next
  pc,               \* position of the running interval callback: "idle"
                    \* (not running), "pass" (line 190, the test was
                    \* false), or in restartSystem "restart" (entered),
                    \* "skip" (line 138), "write" (line 142), "exec"
                    \* (line 155), "return" (line 171)
  alarm,            \* app.js:49
  timestamp_alarm,  \* app.js:50
  file,             \* last_reboot.txt: [exists, data]
  pending,          \* axios requests in flight: [sentAt, startup]
  execPending,      \* number of exec callbacks that have not run yet
  raisedAt,         \* history: Date.now() at the first out-of-sync sample
                    \* since the last in-sync one (0: none)
  lastSample,       \* history: the last response handled by checkTimestamp
  lastCmdAt,        \* history: clock of the last reboot command (0: none)
  prevCmdAt,        \* history: clock of the one before it (0: none)
  anyWriteFailed,   \* history: some write of the record has failed
  writeFailedNow,   \* history: the write of the current restartSystem failed
  cmd,              \* history: the last reboot command of this process:
                    \* "none", "issued" (its callback has not run), or the
                    \* outcome its callback reported, "ok" or "error"
  probe,            \* one call of checkTimestamp taken alone: its local
                    \* time, the reference time and the setAlarm argument
  boot              \* program startup (lines 13 and 226-262): its position,
                    \* NODE_ENV, the flags, `env` and what was started

vars == <<clock, nextTick, pc, alarm, timestamp_alarm, file, pending,
          execPending, raisedAt, lastSample, lastCmdAt, prevCmdAt,
          anyWriteFailed, writeFailedNow, cmd, probe, boot>>

(***************************************************************************)
(* JavaScript numbers: an integer or NaN.                                  *)
(***************************************************************************)
Num(v) == [nan |-> FALSE, v |-> v]
NaN == [nan |-> TRUE, v |-> 0]
JsSub(a, b) == IF a.nan \/ b.nan THEN NaN ELSE Num(a.v - b.v)
JsAbs(a) == IF a.nan THEN NaN ELSE Num(IF a.v < 0 THEN 0 - a.v ELSE a.v)
JsGt(a, b) == ~a.nan /\ ~b.nan /\ a.v > b.v
\* x || 0
JsOrZero(a) == IF a.nan THEN 0 ELSE a.v

(***************************************************************************)
(* The record file holds text.  Number.prototype.toString and parseInt on  *)
(* strings over the digits and one non-digit character.                    *)
(***************************************************************************)
DigitChars == <<"0", "1", "2", "3", "4", "5", "6", "7", "8", "9">>
IsDigit(c) == \E d \in 1..10 : DigitChars[d] = c
DigitValue(c) == (CHOOSE d \in 1..10 : DigitChars[d] = c) - 1

RECURSIVE ToString(_)
ToString(n) ==
  IF n < 10 THEN <<DigitChars[n + 1]>>
  ELSE Append(ToString(n \div 10), DigitChars[(n % 10) + 1])

RECURSIVE LeadingDigits(_)
LeadingDigits(s) ==
  IF s = <<>> \/ ~IsDigit(Head(s)) THEN <<>>
  ELSE <<Head(s)>> \o LeadingDigits(Tail(s))

RECURSIVE DigitsValue(_)
DigitsValue(s) ==
  IF s = <<>> THEN 0
  ELSE DigitsValue(SubSeq(s, 1, Len(s) - 1)) * 10 + DigitValue(s[Len(s)])

\* parseInt(s, 10): the leading digits, NaN when there are none
ParseInt(s) ==
  IF LeadingDigits(s) = <<>> THEN NaN ELSE Num(DigitsValue(LeadingDigits(s)))

Missing == [exists |-> FALSE, data |-> <<>>]
Content(s) == [exists |-> TRUE, data |-> s]

\* getLastRebootTimestamp: a read error (no file) and unparsable text give 0
getLastRebootTimestamp(f) ==
  IF ~f.exists THEN 0 ELSE JsOrZero(ParseInt(f.data))

\* what setLastRebootTimestamp writes
WrittenRecord(now) == Content(ToString(now))

\* writeFileSync: it succeeds, or fails at open (file untouched), or fails
\* after the open has truncated the file
WriteOutcomes == {"ok", "open-failed", "write-failed"}
\* a record that is left to the callback of the command and never written
\* before it
FileAfterWrite_Deferred(f, now, outcome) == f

FileAfterWrite(f, now, outcome) ==
  CASE outcome = "ok" -> WrittenRecord(now)
    [] outcome = "open-failed" -> f
    [] outcome = "write-failed" -> Content(<<>>)

(***************************************************************************)
(* checkTimestamp.                                                         *)
(***************************************************************************)
\* what axios.get resolves or rejects with; `ts` is response.data.timestamp
Payload(type, ms) == [type |-> type, ms |-> ms]
NoPayload == Payload("missing", 0)
Offsets ==
  {0 - (ALLOWED_DIFFERENCE + 1), 0 - ALLOWED_DIFFERENCE,
   ALLOWED_DIFFERENCE, ALLOWED_DIFFERENCE + 1}
Responses(now) ==
  {[kind |-> k, ts |-> NoPayload] : k \in {"neterr", "non2xx"}}
    \cup {[kind |-> "ok", ts |-> Payload("iso", now + d)] : d \in Offsets}
    \cup {[kind |-> "ok", ts |-> Payload(t, 0)] : t \in {"missing", "garbage"}}

\* new Date(x).getTime(): the instant of an ISO string, NaN for undefined or
\* for text that is no date
DateGetTime(p) == IF p.type = "iso" THEN Num(p.ms) ELSE NaN

\* axios rejects on a network error and on a status outside 2xx
Throws(resp) == resp.kind \in {"neterr", "non2xx"}

\* a comparison that counts the boundary as out-of-sync
OutOfSync_AtBoundary(apiTimestamp, localTimestamp) ==
  ~JsGt(Num(ALLOWED_DIFFERENCE), JsAbs(JsSub(Num(localTimestamp), apiTimestamp)))

\* diff > ALLOWED_DIFFERENCE
OutOfSync(apiTimestamp, localTimestamp) ==
  JsGt(JsAbs(JsSub(Num(localTimestamp), apiTimestamp)), Num(ALLOWED_DIFFERENCE))

\* the argument checkTimestamp passes to setAlarm
AlarmArg(resp, localTimestamp) ==
  IF Throws(resp) THEN TRUE
  ELSE OutOfSync(DateGetTime(resp.ts), localTimestamp)

AlarmState(a, t) == [alarm |-> a, timestamp_alarm |-> t]

\* a setAlarm that starts the timer again at every out-of-sync sample
setAlarm_Rearm(state, now) ==
  IF state THEN AlarmState(TRUE, now + TIMEOUT_DURATION)
  ELSE IF alarm THEN AlarmState(FALSE, 0)
  ELSE AlarmState(alarm, timestamp_alarm)

\* a setAlarm with hysteresis: an armed alarm is not cleared by an in-sync
\* sample
setAlarm_Sticky(state, now) ==
  IF state /\ ~alarm THEN AlarmState(TRUE, now + TIMEOUT_DURATION)
  ELSE AlarmState(alarm, timestamp_alarm)

setAlarm(state, now) ==
  IF state /\ ~alarm THEN AlarmState(TRUE, now + TIMEOUT_DURATION)
  ELSE IF ~state /\ alarm THEN AlarmState(FALSE, 0)
  ELSE AlarmState(alarm, timestamp_alarm)

(***************************************************************************)
(* restartSystem and the interval callback.                                *)
(***************************************************************************)
\* a maturity test that misses the boundary
Matured_Strict(a, now, ta) == a /\ now > ta

\* the condition of the interval callback
Matured(a, now, ta) == a /\ now >= ta

\* a guard that lets a reboot through one unit early
GuardAllows_Early(now, last) == ~(now - last < MIN_REBOOT_INTERVAL - 1)

\* a restartSystem without the cooldown test
GuardAllows_Always(now, last) == TRUE

\* restartSystem goes on when `now - last < MIN_REBOOT_INTERVAL` is false
GuardAllows(now, last) == ~(now - last < MIN_REBOOT_INTERVAL)

\* act-then-write: the command first, the record after it
RestartOrder_ActThenWrite(p) ==
  CASE p = "guard" -> "exec"
    [] p = "exec" -> "write"
    [] p = "write" -> "return"

\* statement order of restartSystem after the guard: write, exec, return
RestartOrder(p) ==
  CASE p = "guard" -> "write"
    [] p = "write" -> "exec"
    [] p = "exec" -> "return"

\* a restartSystem that gives up when the record cannot be written
AfterWrite_FailClosed(outcome) ==
  IF outcome = "ok" THEN RestartOrder("write") ELSE "skip"

\* setLastRebootTimestamp catches the write error: restartSystem goes on to
\* its next statement whatever the outcome
AfterWrite(outcome) == RestartOrder("write")

\* an exec callback that gives the alarm up when the command fails
ExecCallback_Disarm(outcome, a) ==
  IF outcome = "error" THEN AlarmState(FALSE, 0) ELSE a

\* the callback of exec (lines 155-170) logs the error, stderr or stdout of
\* the command and leaves the alarm as it is
ExecOutcomes == {"ok", "error"}
ExecCallback(outcome, a) == a

Request(t, s) == [sentAt |-> t, startup |-> s]
NoSample == [kind |-> "none", cls |-> "none"]

InitFiles == {Missing, Content(<<"x">>), Content(ToString(1))}

\* Date.now() when the process starts
StartClock == 1

\* process.env.NODE_ENV: not set, or a string
Unset == [set |-> FALSE, v |-> ""]
EnvVar(v) == [set |-> TRUE, v |-> v]

\* process.env.NODE_ENV || "production": undefined and "" are falsy
EnvOrProduction(e) == IF ~e.set \/ e.v = "" THEN "production" ELSE e.v

Boot(stage, nodeEnv, env, mode, isServer, isClient, server, client, usage) ==
  [stage |-> stage, NODE_ENV |-> nodeEnv, env |-> env, mode |-> mode,
   isServer |-> isServer, isClient |-> isClient,
   server |-> server, client |-> client, usage |-> usage]

\* `node app.js --client` with NODE_ENV not set, after the last statement
Started ==
  Boot("done", Unset, "production", "production", FALSE, TRUE,
       FALSE, TRUE, FALSE)

\* no call of checkTimestamp is looked at alone
NoProbe == [stage |-> "none", local |-> 0, api |-> 0, state |-> FALSE]

\* the client after startClient has returned: the first request is out and
\* the interval is scheduled
ClientInit ==
  /\ clock = StartClock
  /\ nextTick = clock + CHECK_INTERVAL
  /\ pc = "idle"
  /\ alarm = FALSE
  /\ timestamp_alarm = 0
  /\ file \in InitFiles
  /\ pending = {Request(clock, TRUE)}
  /\ execPending = 0
  /\ raisedAt = 0
  /\ lastSample = NoSample
  /\ lastCmdAt = 0
  /\ prevCmdAt = 0
  /\ anyWriteFailed = FALSE
  /\ writeFailedNow = FALSE
  /\ cmd = "none"

Init ==
  /\ ClientInit
  /\ probe = NoProbe
  /\ boot = Started

\* time passes; the interval callback runs when it is due
Advance ==
  /\ pc = "idle"
  /\ clock < nextTick
  /\ clock < MaxClock
  /\ clock' = clock + 1
  /\ UNCHANGED <<nextTick, pc, alarm, timestamp_alarm, file, pending,
                 execPending, raisedAt, lastSample, lastCmdAt, prevCmdAt,
                 anyWriteFailed, writeFailedNow, cmd, probe, boot>>

\* the setInterval callback: checkTimestamp() up to its await, then the
\* maturity test on the alarm as it stands
Tick ==
  /\ pc = "idle"
  /\ clock = nextTick
  /\ Cardinality(pending) < MaxPending
  /\ pending' = pending \cup {Request(clock, FALSE)}
  /\ nextTick' = clock + CHECK_INTERVAL
  /\ pc' = IF Matured(alarm, clock, timestamp_alarm) THEN "restart" ELSE "pass"
  /\ UNCHANGED <<clock, alarm, timestamp_alarm, file, execPending, raisedAt,
                 lastSample, lastCmdAt, prevCmdAt, anyWriteFailed,
                 writeFailedNow, cmd, probe, boot>>

\* restartSystem, lines 133-140
Guard ==
  /\ pc = "restart"
  /\ pc' = IF GuardAllows(clock, getLastRebootTimestamp(file))
           THEN RestartOrder("guard") ELSE "skip"
  /\ UNCHANGED <<clock, nextTick, alarm, timestamp_alarm, file, pending,
                 execPending, raisedAt, lastSample, lastCmdAt, prevCmdAt,
                 anyWriteFailed, writeFailedNow, cmd, probe, boot>>

\* setLastRebootTimestamp
Write ==
  /\ pc = "write"
  /\ \E outcome \in WriteOutcomes :
       /\ file' = FileAfterWrite(file, clock, outcome)
       /\ writeFailedNow' = (outcome # "ok")
       /\ anyWriteFailed' = (anyWriteFailed \/ outcome # "ok")
       /\ pc' = AfterWrite(outcome)
  /\ UNCHANGED <<clock, nextTick, alarm, timestamp_alarm, pending,
                 execPending, raisedAt, lastSample, lastCmdAt, prevCmdAt,
                 cmd, probe, boot>>

\* exec(cmd, callback): the reboot command is issued
Exec ==
  /\ pc = "exec"
  /\ execPending' = execPending + 1
  /\ prevCmdAt' = lastCmdAt
  /\ lastCmdAt' = clock
  /\ cmd' = "issued"
  /\ pc' = RestartOrder("exec")
  /\ UNCHANGED <<clock, nextTick, alarm, timestamp_alarm, file, pending,
                 raisedAt, lastSample, anyWriteFailed, writeFailedNow,
                 probe, boot>>

\* the interval callback returns: its test was false, or restartSystem
\* returned (after the skip, or after its last statement)
Return ==
  /\ pc \in {"pass", "skip", "return"}
  /\ pc' = "idle"
  /\ writeFailedNow' = FALSE
  /\ UNCHANGED <<clock, nextTick, alarm, timestamp_alarm, file, pending,
                 execPending, raisedAt, lastSample, lastCmdAt, prevCmdAt,
                 anyWriteFailed, cmd, probe, boot>>

\* the callback of an exec runs: of the last command (`latest`) or of an
\* earlier one that is still outstanding
ExecDone ==
  /\ pc = "idle"
  /\ execPending > 0
  /\ \E outcome \in ExecOutcomes, latest \in BOOLEAN :
       LET next == ExecCallback(outcome, AlarmState(alarm, timestamp_alarm)) IN
         /\ latest => cmd = "issued"
         /\ ~latest => execPending > (IF cmd = "issued" THEN 1 ELSE 0)
         /\ alarm' = next.alarm
         /\ timestamp_alarm' = next.timestamp_alarm
         /\ cmd' = IF latest THEN outcome ELSE cmd
         /\ execPending' = execPending - 1
  /\ UNCHANGED <<clock, nextTick, pc, file, pending, raisedAt, lastSample,
                 lastCmdAt, prevCmdAt, anyWriteFailed, writeFailedNow,
                 probe, boot>>

\* a request settles and checkTimestamp resumes after its await
Resolve ==
  /\ pc = "idle"
  /\ \E r \in pending, resp \in Responses(clock) :
       LET next == setAlarm(AlarmArg(resp, clock), clock) IN
         /\ pending' = pending \ {r}
         /\ alarm' = next.alarm
         /\ timestamp_alarm' = next.timestamp_alarm
         /\ raisedAt' = IF ~AlarmArg(resp, clock) THEN 0
                        ELSE IF raisedAt = 0 THEN clock ELSE raisedAt
         /\ lastSample' =
              [kind |-> IF Throws(resp) THEN resp.kind ELSE resp.ts.type,
               cls |-> IF AlarmArg(resp, clock) THEN "out" ELSE "in"]
  /\ UNCHANGED <<clock, nextTick, pc, file, execPending, lastCmdAt, prevCmdAt,
                 anyWriteFailed, writeFailedNow, cmd, probe, boot>>

\* a startClient that leaves the first sample to the first interval
Restart_Lazy ==
  /\ pc' = "idle"
  /\ alarm' = FALSE
  /\ timestamp_alarm' = 0
  /\ raisedAt' = 0
  /\ pending' = {}
  /\ execPending' = 0
  /\ nextTick' = clock + CHECK_INTERVAL
  /\ lastSample' = NoSample
  /\ writeFailedNow' = FALSE
  /\ cmd' = "none"
  /\ UNCHANGED <<clock, file, lastCmdAt, prevCmdAt, anyWriteFailed,
                 probe, boot>>

\* the process is killed (or the machine reboots) and the client starts
\* again: only the record file survives
Restart ==
  /\ pc' = "idle"
  /\ alarm' = FALSE
  /\ timestamp_alarm' = 0
  /\ raisedAt' = 0
  /\ pending' = {Request(clock, TRUE)}
  /\ execPending' = 0
  /\ nextTick' = clock + CHECK_INTERVAL
  /\ lastSample' = NoSample
  /\ writeFailedNow' = FALSE
  /\ cmd' = "none"
  /\ UNCHANGED <<clock, file, lastCmdAt, prevCmdAt, anyWriteFailed,
                 probe, boot>>

Next ==
  \/ Advance
  \/ Tick
  \/ Guard
  \/ Write
  \/ Exec
  \/ Return
  \/ ExecDone
  \/ Resolve
  \/ Restart

Spec == Init /\ [][Next]_vars

(***************************************************************************)
(* One call of checkTimestamp taken alone: the reference answers with an   *)
(* ISO timestamp and the call classifies it against the local time.        *)
(***************************************************************************)
clientVars ==
  <<clock, nextTick, pc, alarm, timestamp_alarm, file, pending, execPending,
    raisedAt, lastSample, lastCmdAt, prevCmdAt, anyWriteFailed,
    writeFailedNow, cmd>>

ProbeTimes == 0..MaxProbe

InitClassify ==
  /\ ClientInit
  /\ boot = Started
  /\ \E l \in ProbeTimes, a \in ProbeTimes :
       probe = [stage |-> "input", local |-> l, api |-> a, state |-> FALSE]

\* lines 69-81: the argument of setAlarm for this local and reference time
Classify ==
  /\ probe.stage = "input"
  /\ probe' =
       [probe EXCEPT
          !.stage = "done",
          !.state = AlarmArg([kind |-> "ok", ts |-> Payload("iso", probe.api)],
                             probe.local)]
  /\ UNCHANGED <<clientVars, boot>>

NextClassify == Classify

SpecClassify == InitClassify /\ [][NextClassify]_vars

(***************************************************************************)
(* Program startup, line 13 and lines 226-262, one statement at a time.    *)
(***************************************************************************)
\* the client variables before startClient has run
ClientNotStarted ==
  /\ clock = StartClock
  /\ nextTick = 0
  /\ pc = "idle"
  /\ alarm = FALSE
  /\ timestamp_alarm = 0
  /\ file = Missing
  /\ pending = {}
  /\ execPending = 0
  /\ raisedAt = 0
  /\ lastSample = NoSample
  /\ lastCmdAt = 0
  /\ prevCmdAt = 0
  /\ anyWriteFailed = FALSE
  /\ writeFailedNow = FALSE
  /\ cmd = "none"

NodeEnvs ==
  {Unset} \cup
    {EnvVar(v) : v \in {"", "development", "production", "Production",
                        "dev", "staging", "test"}}

InitStartup ==
  /\ ClientNotStarted
  /\ probe = NoProbe
  /\ \E e \in NodeEnvs, s \in BOOLEAN, c \in BOOLEAN :
       boot = Boot("load", e, "", "none", s, c, FALSE, FALSE, FALSE)

\* line 13
LoadEnv ==
  /\ boot.stage = "load"
  /\ boot' = [boot EXCEPT !.env = EnvOrProduction(boot.NODE_ENV),
                          !.stage = "mode"]
  /\ UNCHANGED <<clientVars, probe>>

\* lines 234-249.  The last branch logs "Unknown mode" and then assigns to
\* `env`, which line 13 declares const: the assignment throws a TypeError
\* that nothing catches, and the process exits with `env` as it was
SelectMode ==
  /\ boot.stage = "mode"
  /\ boot' =
       IF boot.env = "development"
         THEN [boot EXCEPT !.mode = "development", !.stage = "server"]
       ELSE IF boot.env = "production"
         THEN [boot EXCEPT !.mode = "production", !.stage = "server"]
       ELSE [boot EXCEPT !.mode = "unknown", !.stage = "crashed"]
  /\ UNCHANGED <<clientVars, probe>>

\* line 252
StartServer ==
  /\ boot.stage = "server"
  /\ boot' = [boot EXCEPT !.server = boot.isServer, !.stage = "client"]
  /\ UNCHANGED <<clientVars, probe>>

\* line 254: startClient sends the first request and schedules the interval
StartClient ==
  /\ boot.stage = "client"
  /\ boot' = [boot EXCEPT !.client = boot.isClient, !.stage = "usage"]
  /\ pending' = IF boot.isClient THEN {Request(clock, TRUE)} ELSE pending
  /\ nextTick' = IF boot.isClient THEN clock + CHECK_INTERVAL ELSE nextTick
  /\ UNCHANGED <<clock, pc, alarm, timestamp_alarm, file, execPending,
                 raisedAt, lastSample, lastCmdAt, prevCmdAt, anyWriteFailed,
                 writeFailedNow, cmd, probe>>

\* lines 257-262
Usage ==
  /\ boot.stage = "usage"
  /\ boot' = [boot EXCEPT !.usage = (~boot.isServer /\ ~boot.isClient),
                          !.stage = "done"]
  /\ UNCHANGED <<clientVars, probe>>

NextStartup ==
  \/ LoadEnv
  \/ SelectMode
  \/ StartServer
  \/ StartClient
  \/ Usage

SpecStartup == InitStartup /\ [][NextStartup]_vars

(***************************************************************************)
(* Properties.                                                             *)
(***************************************************************************)
\* the record a guard check would read
Record == getLastRebootTimestamp(file)

\* no prior reboot is recorded: the file is missing or holds no number
NoRecord == ~file.exists \/ ParseInt(file.data).nan

\* the running restartSystem has issued its reboot command
CommandIssued == pc \in {"write", "exec", "return"} /\ lastCmdAt = clock

\* the alarm is armed and its timeout has elapsed
MaturedSinceRaise == alarm /\ clock >= raisedAt + TIMEOUT_DURATION

\* C1: as long as every write of the record has succeeded, two consecutive
\* reboot commands are at least MIN_REBOOT_INTERVAL apart on the local
\* clock, whatever the ticks, samples, command outcomes and restarts were.
C1_RebootsSpacedByCooldown ==
  (~anyWriteFailed /\ prevCmdAt # 0)
    => lastCmdAt - prevCmdAt >= MIN_REBOOT_INTERVAL

\* two commands were issued, exactly one cooldown apart
C1_Witness ==
  /\ ~anyWriteFailed
  /\ prevCmdAt # 0
  /\ lastCmdAt - prevCmdAt = MIN_REBOOT_INTERVAL

\* C2 as stated: in no execution is the command issued while the record
\* still holds the old value; once restartSystem has issued the command the
\* record reads as the current time.
C2_RecordAdvancedBeforeCommand == CommandIssued => Record = clock

\* C2 amended: when the write of the record succeeded, the record reads as
\* the current time once the command is issued (write-then-act).
C2_WriteThenAct == (CommandIssued /\ ~writeFailedNow) => Record = clock

\* the command was issued after a successful write that replaced the
\* record of an earlier reboot
C2_Witness ==
  /\ CommandIssued
  /\ ~writeFailedNow
  /\ Record = clock
  /\ prevCmdAt # 0

\* C3: the guard allows the reboot if and only if the cooldown has elapsed
\* since the recorded reboot or no prior reboot is recorded; with no record
\* it allows for every value of the clock.
C3_GuardIffCooldownOrNoRecord ==
  /\ pc = "skip" => ~(NoRecord \/ clock - Record >= MIN_REBOOT_INTERVAL)
  /\ pc = "write" => (NoRecord \/ clock - Record >= MIN_REBOOT_INTERVAL)

\* C4: every failed or malformed sample (network error, non-2xx status,
\* missing or unparsable timestamp) is classified out-of-sync and leaves the
\* alarm armed.
C4_FailedSampleIsOutOfSync ==
  lastSample.kind \in {"neterr", "non2xx", "missing", "garbage"}
    => (lastSample.cls = "out" /\ alarm)

\* C5: timestamp_alarm is set exactly while the alarm is active, and it is
\* the time of the first out-of-sync sample of the armed period plus
\* TIMEOUT_DURATION: no later sample, tick or reboot attempt moves it.
C5_AlarmTimerFromFirstBadSample ==
  /\ (timestamp_alarm # 0) <=> alarm
  /\ alarm <=> (raisedAt # 0)
  /\ alarm => timestamp_alarm = raisedAt + TIMEOUT_DURATION

\* the alarm is armed and the request of a tick later than the raise has
\* been handled as one more out-of-sync sample
C5_Witness ==
  /\ alarm
  /\ lastSample.cls = "out"
  /\ nextTick - CHECK_INTERVAL > raisedAt
  /\ pending = {}

\* C6: at a tick restartSystem is entered if and only if the alarm is armed
\* and the clock has reached raisedAt + TIMEOUT_DURATION (boundary included).
C6_RestartIffMatured ==
  /\ pc = "restart" => MaturedSinceRaise
  /\ pc = "pass" => ~MaturedSinceRaise

\* restartSystem is entered exactly at the boundary
C6_Witness == pc = "restart" /\ clock = raisedAt + TIMEOUT_DURATION

\* C7: the reference call of a tick is resolved and applied to the alarm
\* before that tick decides to reboot.
C7_SampleAppliedBeforeDecision ==
  pc = "restart" => Request(clock, FALSE) \notin pending

\* C8: at most one reference request is in flight at any time.
C8_CyclesSerialized == Cardinality(pending) <= 1

\* C9: when no reference call has returned since the client started, a call
\* left unresolved for longer than TIMEOUT_DURATION has been treated as a
\* failed sample, so the alarm is armed.
C9_UnresolvedCallArmsAlarm ==
  (/\ lastSample = NoSample
   /\ \E r \in pending : r.startup /\ clock - r.sentAt > TIMEOUT_DURATION)
    => alarm

\* C10: while the last sample is a drift beyond ALLOWED_DIFFERENCE the alarm
\* is armed, and the tick that finds it matured with no prior reboot
\* recorded does not skip the reboot: it issues the command and (its write
\* succeeding) leaves the current time in the record.
C10_DriftRebootsWithoutRecord ==
  (lastSample.kind = "iso" /\ lastSample.cls = "out")
    => /\ alarm
       /\ pc = "skip" => ~NoRecord
       /\ (pc = "return" /\ ~writeFailedNow)
            => (lastCmdAt = clock /\ Record = clock)

\* C11: an in-sync sample leaves the alarm Clear (alarm false, timer unset)
\* whatever preceded it, and the interval callback that follows does not
\* enter restartSystem: a reboot is attempted only while the last sample is
\* out-of-sync and a full TIMEOUT_DURATION has passed since the alarm was
\* raised again.
C11_InSyncClearsAlarm ==
  /\ lastSample.cls = "in"
       => (~alarm /\ timestamp_alarm = 0 /\ pc \in {"idle", "pass"})
  /\ pc = "restart"
       => (lastSample.cls = "out" /\ clock >= raisedAt + TIMEOUT_DURATION)

\* a command was issued by this process (the alarm had matured), then an
\* in-sync sample was handled and the next tick did not attempt a reboot
C11_Witness == lastSample.cls = "in" /\ pc = "pass" /\ execPending > 0

\* C12: the record never decreases: no step lowers the value a guard check
\* reads from it.
C12_RecordNeverDecreases ==
  [][getLastRebootTimestamp(file') >= Record]_vars

\* C13: the callback of a failed reboot command changes nothing: the alarm,
\* the interval and the record are as before it.  With the command failed,
\* a tick that finds the alarm matured enters restartSystem again, and its
\* guard denies while the record holds the time of the failed command (its
\* write succeeded) and MIN_REBOOT_INTERVAL has not elapsed since.
C13_FailedCommandOnlyLogged ==
  [][/\ (cmd = "issued" /\ cmd' = "error")
          => /\ alarm' = alarm
             /\ timestamp_alarm' = timestamp_alarm
             /\ nextTick' = nextTick
             /\ file' = file
             /\ pc' = pc
     /\ (/\ cmd = "error"
         /\ cmd' = "error"
         /\ pc = "idle"
         /\ pc' # "idle"
         /\ alarm
         /\ clock >= timestamp_alarm)
          => pc' = "restart"
     /\ (/\ cmd = "error"
         /\ cmd' = "error"
         /\ pc = "restart"
         /\ Record = lastCmdAt
         /\ clock - lastCmdAt < MIN_REBOOT_INTERVAL)
          => pc' = "skip"]_vars

\* the command failed, the next tick entered restartSystem again and the
\* guard denied it on the record written before the failed command
C13_Witness ==
  /\ cmd = "error"
  /\ pc = "skip"
  /\ alarm
  /\ Record = lastCmdAt
  /\ clock > lastCmdAt

\* C14: when the write of the record fails, restartSystem goes on to issue
\* the command in the same call, and the interval stays scheduled.
C14_WriteFailureFailsOpen ==
  writeFailedNow
    => /\ pc \in {"exec", "return"}
       /\ pc = "return" => lastCmdAt = clock
       /\ nextTick > clock

\* the write failed and the command was issued in the same call
C14_Witness == writeFailedNow /\ pc = "return" /\ lastCmdAt = clock

\* C15: the record changes only in the write of a restartSystem whose guard
\* found the cooldown elapsed, and a command is issued only by its exec: a
\* tick that does not enter restartSystem, and one whose guard denies,
\* leave the record alone and issue nothing.
C15_RecordChangedOnlyByCommit ==
  [][/\ file' # file
          => (pc = "write" /\ clock - Record >= MIN_REBOOT_INTERVAL)
     /\ lastCmdAt' # lastCmdAt => pc = "exec"]_vars

\* the guard has denied a matured alarm inside the cooldown of a record
C15_Witness ==
  pc = "skip" /\ ~NoRecord /\ clock - Record < MIN_REBOOT_INTERVAL

\* C16 as stated: the record changes only with a command that succeeded, so
\* after a failed command it does not hold the time of that command.
C16_RecordHoldsLastSuccessfulReboot == cmd = "error" => Record # lastCmdAt

\* C16 amended: the record is written before the command and the outcome of
\* the command does not change it: with every write successful, after a
\* failed command the record holds the time of that failed attempt (until
\* the write of a later attempt).
C16_RecordHoldsLastCommittedAttempt ==
  (cmd = "error" /\ ~anyWriteFailed /\ pc # "exec") => Record = lastCmdAt

\* a command has failed and the record holds its time
C16_Witness ==
  /\ cmd = "error"
  /\ ~anyWriteFailed
  /\ pc = "idle"
  /\ lastCmdAt # 0
  /\ Record = lastCmdAt

\* C17: with the reference timestamp obtained, the call passes true to
\* setAlarm if and only if the distance between the local and the reference
\* time exceeds ALLOWED_DIFFERENCE, whichever of the two is ahead; at the
\* boundary it passes false.
C17_OutOfSyncIffBeyondAllowed ==
  probe.stage = "done"
    => (probe.state <=>
          \/ probe.local - probe.api > ALLOWED_DIFFERENCE
          \/ probe.api - probe.local > ALLOWED_DIFFERENCE)

\* the local clock is behind the reference by exactly ALLOWED_DIFFERENCE and
\* the sample is in-sync
C17_Witness ==
  /\ probe.stage = "done"
  /\ probe.api - probe.local = ALLOWED_DIFFERENCE
  /\ ~probe.state

\* C18 as stated: the client runs a full cycle at startup, so every step
\* that sends a request goes on to the maturity test of the same cycle.
C18_StartupRunsFullCycle ==
  [][(\E r \in pending' : r \notin pending) => pc' \in {"pass", "restart"}]_vars

\* C18 amended: the client sends its first request at startup without
\* waiting for the interval (no sample is handled before that request is
\* out); the maturity test and restartSystem run only in the interval
\* callback, first CHECK_INTERVAL after the start, and the requests of the
\* ticks follow the startup request by at least CHECK_INTERVAL.
C18_StartupSamplesThenPeriodicCycles ==
  /\ lastSample = NoSample => (\E r \in pending : r.startup)
  /\ nextTick \in clock..(clock + CHECK_INTERVAL)
  /\ \A r \in pending :
       r.startup
         => /\ pc # "idle" => clock >= r.sentAt + CHECK_INTERVAL
            /\ \A q \in pending :
                 ~q.startup => q.sentAt >= r.sentAt + CHECK_INTERVAL

\* the startup sample has armed the alarm before the first interval
C18_Witness ==
  /\ alarm
  /\ raisedAt = StartClock
  /\ nextTick = StartClock + CHECK_INTERVAL
  /\ pending = {}

\* a request sent after r has already been handled
Stale(r) ==
  \E k \in 1..MaxClock :
    /\ r.sentAt + k * CHECK_INTERVAL < nextTick
    /\ Request(r.sentAt + k * CHECK_INTERVAL, FALSE) \notin pending

\* C19: a response of an earlier tick that is handled after the response of
\* a later tick does not change the alarm.
C19_StaleSampleIgnored ==
  [][\A r \in pending :
       (pending' = pending \ {r} /\ Stale(r))
         => (alarm' = alarm /\ timestamp_alarm' = timestamp_alarm)]_vars

\* C20: with NODE_ENV neither "development" nor "production", startup logs
\* the unknown mode, leaves `env` at "production" and goes on to the start
\* of the server and client: it never aborts in the mode selection.
C20_UnknownModeFallsBackToProduction ==
  boot.mode = "unknown" => (boot.env = "production" /\ boot.stage # "crashed")

=============================================================================
